---- MODULE Spec2Model ----
(***************************************************************************)
(* Model of the Gmail signature generator: the template engine and the     *)
(* signature assembler (data.py), the profile normalizer (data.py) and the *)
(* relevance filter (sender.py).                                           *)
(*                                                                         *)
(* Strings.  A Python str is a sequence of atoms.  The atoms "{", "}" and  *)
(* "/" are the three characters the marker syntax is made of; every other  *)
(* atom is a run of characters holding none of the three (a keyword name,  *)
(* a word of text, a line break).  The empty str is << >>.  A marker is    *)
(* therefore a sequence of atoms ("{phone/}" is <<"{","phone","/","}">>),  *)
(* and text joined by a deletion can form a new marker, as in the code.    *)
(* A keyword name, and the word "external" of an email address, is always  *)
(* one atom: text never forms one out of parts.                            *)
(*                                                                         *)
(* Python values.  A value is a record tagged by its kind: a str, a bool   *)
(* or None.  A dict is a function whose DOMAIN is its key set.             *)
(***************************************************************************)
EXTENDS Integers, Sequences, FiniteSets, TLC

VARIABLES
    pc,             \* control point of the running operation
    text,           \* the text being rendered (html_template in build_signature)
    keyword,        \* keyword of the last engine pass
    operator,       \* operator of the last engine pass
    employee_data,  \* the dict handed to the engine / to build_signature
    input,          \* the text as it was before the last engine pass
    template,       \* the template build_signature was called with
    idx,            \* build_signature: number of entries of replacements done
    applied,        \* build_signature: the passes run so far, in order
    user,           \* the raw directory record
    result,         \* the value returned by the operation
    \* sender.py: main and send_messages_to_pubsub
    html_template_user,            \* the template fetched for standard users
    html_template_technical_user,  \* the template fetched for technical users
    employees,                     \* the records get_all_employees returned
    relevant_employees,            \* what remove_irrelevant_users kept
    messages,                      \* the list of messages built, then published
    futures,                       \* the futures publish returned, in order
    successful_publishes,          \* the count the second loop keeps
    attempts,                      \* the messages publish was called with, in order
    log,                           \* the errors logged by the second loop
    resolved,                      \* the number of futures the second loop has handled
    \* receiver.py: the requests being handled and the Drive folder
    rpc,                           \* control point of each request
    calls,                         \* the calls each request has made, in order
    existing_file_id,              \* what the lookup of each request returned
    drive_error,                   \* the error the Drive write of each request ended in
    drive                          \* the ids of the files named <employee_id>.html

engine_vars ==
    <<pc, text, keyword, operator, employee_data, input, template, idx, applied, user, result>>

sender_vars ==
    <<html_template_user, html_template_technical_user, employees, relevant_employees,
      messages, futures, successful_publishes, attempts, log, resolved>>

receiver_vars == <<rpc, calls, existing_file_id, drive_error, drive>>

vars == <<engine_vars, sender_vars, receiver_vars>>

\* no run of the sender is under way
SenderIdle ==
    /\ html_template_user = << >>
    /\ html_template_technical_user = << >>
    /\ employees = << >>
    /\ relevant_employees = << >>
    /\ messages = << >>
    /\ futures = << >>
    /\ successful_publishes = 0
    /\ attempts = << >>
    /\ log = << >>
    /\ resolved = 0

\* no request is being handled and the folder is empty
ReceiverIdle ==
    /\ rpc = << >>
    /\ calls = << >>
    /\ existing_file_id = << >>
    /\ drive_error = << >>
    /\ drive = {}

----------------------------------------------------------------------------
(* Python values *)

PyNone == [kind |-> "none"]
PyBool(b) == [kind |-> "bool", val |-> b]
PyStr(s) == [kind |-> "str", val |-> s]

\* bool(x): the truth value Python gives x
Truthy(x) ==
    CASE x.kind = "none" -> FALSE
      [] x.kind = "bool" -> x.val
      [] x.kind = "str"  -> x.val # << >>

\* str(x)
Str(x) ==
    CASE x.kind = "none" -> <<"None">>
      [] x.kind = "bool" -> IF x.val THEN <<"True">> ELSE <<"False">>
      [] x.kind = "str"  -> x.val

\* x is True
IsTrue(x) == x.kind = "bool" /\ x.val

\* d.get(k)
Get(d, k) == IF k \in DOMAIN d THEN d[k] ELSE PyNone

\* d.get(k, default)
GetOr(d, k, default) == IF k \in DOMAIN d THEN d[k] ELSE default

----------------------------------------------------------------------------
(* str operations *)

\* pat occurs in t at position i
MatchAt(t, pat, i) ==
    /\ i >= 1
    /\ i + Len(pat) - 1 <= Len(t)
    /\ \A j \in 1..Len(pat) : t[i + j - 1] = pat[j]

RECURSIVE ReplaceFrom(_, _, _, _)
ReplaceFrom(t, pat, rep, i) ==
    IF i > Len(t) THEN << >>
    ELSE IF MatchAt(t, pat, i)
         THEN rep \o ReplaceFrom(t, pat, rep, i + Len(pat))
         ELSE <<t[i]>> \o ReplaceFrom(t, pat, rep, i + 1)

\* t.replace(pat, rep) for a non-empty pat: left to right, non-overlapping
Replace(t, pat, rep) == ReplaceFrom(t, pat, rep, 1)

\* the three markers of a keyword
VarMarker(k) == <<"{", k, "}">>
OpenMarker(k) == <<"{", k, "/", "}">>
CloseMarker(k) == <<"{", "/", k, "}">>

----------------------------------------------------------------------------
(* Template engine (data.py) *)

NORMAL_REPLACEMENT == "normal"
CUSTOM_PARAGRAPH_WITH_VARIABLE == "customParagraphWithVariable"
CUSTOM_PARAGRAPH_WITHOUT_VARIABLE == "customParagraphWithoutVariable"

\* remove_tags without its second replace: the closing markers stay
remove_tags_opening_only(t, k) == Replace(t, OpenMarker(k), << >>)

remove_tags(t, k) == Replace(Replace(t, OpenMarker(k), << >>), CloseMarker(k), << >>)

\* first position >= i where the closing marker of k occurs in t, 0 if none
RECURSIVE FirstClose(_, _, _)
FirstClose(t, k, i) ==
    IF i > Len(t) THEN 0
    ELSE IF MatchAt(t, CloseMarker(k), i) THEN i
    ELSE FirstClose(t, k, i + 1)

\* re.sub of "{k/}.*?{/k}" (DOTALL) by "": at each position, left to right,
\* a match is the opening marker and the text up to the first closing marker
\* after it; the scan goes on after the match
RECURSIVE RemoveBetweenFrom(_, _, _)
RemoveBetweenFrom(t, k, i) ==
    IF i > Len(t) THEN << >>
    ELSE LET e == FirstClose(t, k, i + Len(OpenMarker(k)))
         IN  IF MatchAt(t, OpenMarker(k), i) /\ e # 0
             THEN RemoveBetweenFrom(t, k, e + Len(CloseMarker(k)))
             ELSE <<t[i]>> \o RemoveBetweenFrom(t, k, i + 1)

\* last position >= i where the closing marker of k occurs in t, 0 if none
RECURSIVE LastClose(_, _, _)
LastClose(t, k, i) ==
    IF i > Len(t) THEN 0
    ELSE LET later == LastClose(t, k, i + 1)
         IN  IF later # 0 THEN later
             ELSE IF MatchAt(t, CloseMarker(k), i) THEN i ELSE 0

RECURSIVE RemoveBetweenGreedyFrom(_, _, _)
RemoveBetweenGreedyFrom(t, k, i) ==
    IF i > Len(t) THEN << >>
    ELSE LET e == LastClose(t, k, i + Len(OpenMarker(k)))
         IN  IF MatchAt(t, OpenMarker(k), i) /\ e # 0
             THEN RemoveBetweenGreedyFrom(t, k, e + Len(CloseMarker(k)))
             ELSE <<t[i]>> \o RemoveBetweenGreedyFrom(t, k, i + 1)

\* the pattern written with a greedy ".*": a block runs to the last closing marker
remove_everything_between_tags_greedy(t, k) == RemoveBetweenGreedyFrom(t, k, 1)

remove_everything_between_tags(t, k) == RemoveBetweenFrom(t, k, 1)

\* the third operator testing the value's truth instead of "is True"
replace_template_variable_truthy(t, k, op, data) ==
    IF op = NORMAL_REPLACEMENT
    THEN Replace(t, VarMarker(k), Str(GetOr(data, k, PyStr(<< >>))))
    ELSE IF op = CUSTOM_PARAGRAPH_WITH_VARIABLE
    THEN IF Truthy(Get(data, k))
         THEN Replace(remove_tags(t, k), VarMarker(k), Str(data[k]))
         ELSE remove_everything_between_tags(t, k)
    ELSE IF op = CUSTOM_PARAGRAPH_WITHOUT_VARIABLE
    THEN IF Truthy(Get(data, k))
         THEN remove_tags(t, k)
         ELSE remove_everything_between_tags(t, k)
    ELSE t

replace_template_variable(t, k, op, data) ==
    IF op = NORMAL_REPLACEMENT
    THEN Replace(t, VarMarker(k), Str(GetOr(data, k, PyStr(<< >>))))
    ELSE IF op = CUSTOM_PARAGRAPH_WITH_VARIABLE
    THEN IF Truthy(Get(data, k))
         THEN Replace(remove_tags(t, k), VarMarker(k), Str(data[k]))
         ELSE remove_everything_between_tags(t, k)
    ELSE IF op = CUSTOM_PARAGRAPH_WITHOUT_VARIABLE
    THEN IF IsTrue(Get(data, k))
         THEN remove_tags(t, k)
         ELSE remove_everything_between_tags(t, k)
    ELSE t

----------------------------------------------------------------------------
(* Bounded inputs of the engine *)

\* longest template, in pieces
MaxPieces == 4

RECURSIVE Flatten(_)
Flatten(ps) == IF ps = << >> THEN << >> ELSE Head(ps) \o Flatten(Tail(ps))

\* what a template is put together from: the markers of k, a marker of
\* another keyword, text, a line break and a lone brace
Pieces(k) ==
    { OpenMarker(k), CloseMarker(k), VarMarker(k),
      VarMarker("mobile"), <<"x">>, <<"\n">>, <<"{">> }

Texts(k) == { Flatten(ps) : ps \in UNION { [1..n -> Pieces(k)] : n \in 0..MaxPieces } }

\* longer templates: two blocks with text between them, a block that holds an
\* opening marker, a block overlapping a block of another keyword, an
\* opening marker after the last closing marker
TwoBlocks(k) ==
    <<"a">> \o OpenMarker(k) \o <<"b">> \o CloseMarker(k) \o <<"c", "\n">>
        \o VarMarker("mobile") \o OpenMarker(k) \o VarMarker(k) \o CloseMarker(k) \o <<"d">>

LongTexts(k) ==
    { TwoBlocks(k),
      OpenMarker(k) \o <<"a">> \o OpenMarker(k) \o <<"b">> \o CloseMarker(k)
          \o <<"c">> \o CloseMarker(k) \o <<"d">>,
      OpenMarker(k) \o <<"a">> \o OpenMarker("mobile") \o <<"b">> \o CloseMarker(k)
          \o <<"c">> \o CloseMarker("mobile"),
      OpenMarker(k) \o <<"a">> \o CloseMarker(k) \o <<"b">> \o OpenMarker(k) \o <<"c">> }

\* the templates of the spec's scenarios
PhoneScenario ==
    <<"Hi ", "{", "firstName", "}", ", ">> \o OpenMarker("phone")
        \o <<"Call me: ">> \o VarMarker("phone") \o CloseMarker("phone")
DuScenario ==
    OpenMarker("gernePerDu") \o <<"Feel free to use first name">> \o CloseMarker("gernePerDu")

\* the values a profile may hold under one key
Values == { PyStr(<< >>), PyStr(<<"123">>), PyBool(TRUE), PyBool(FALSE) }

\* the dicts holding at most the key k
DictsOf(k) == { << >> } \cup { [x \in {k} |-> v] : v \in Values }

Operators ==
    { NORMAL_REPLACEMENT, CUSTOM_PARAGRAPH_WITH_VARIABLE, CUSTOM_PARAGRAPH_WITHOUT_VARIABLE }

----------------------------------------------------------------------------
(* One call of replace_template_variable *)

InitRender ==
    /\ pc = "render"
    /\ \/ keyword = "phone" /\ text \in Texts("phone") \cup LongTexts("phone") \cup {PhoneScenario}
       \/ keyword = "gernePerDu" /\ text = DuScenario
    /\ employee_data \in DictsOf(keyword)
    /\ operator = "none"
    /\ input = text
    /\ template = text
    /\ idx = 0
    /\ applied = << >>
    /\ user = << >>
    /\ result = PyNone
    /\ SenderIdle
    /\ ReceiverIdle

Render(op) ==
    /\ pc = "render"
    /\ operator' = op
    /\ text' = replace_template_variable(text, keyword, op, employee_data)
    /\ result' = PyStr(text')
    /\ pc' = "rendered"
    /\ UNCHANGED <<keyword, employee_data, input, template, idx, applied, user>>
    /\ UNCHANGED <<sender_vars, receiver_vars>>

NextRender == \E op \in Operators : Render(op)

SpecRender == InitRender /\ [][NextRender]_vars

----------------------------------------------------------------------------
(* Profile normalizer (data.py) *)

EmptyDict == << >>
EmptyStr == PyStr(<< >>)
TechnicalPath == PyStr(<<"/", "Orga Accounts">>)

\* the loop over data["phones"]: every matching entry overwrites the value
\* found so far; acc is <<phone, mobile>>
RECURSIVE PhoneLoop(_, _, _)
PhoneLoop(phone_candidates, i, acc) ==
    IF i > Len(phone_candidates) THEN acc
    ELSE LET phone_entry == phone_candidates[i]
         IN  IF Get(phone_entry, "type") = PyStr(<<"work">>)
             THEN PhoneLoop(phone_candidates, i + 1,
                            <<GetOr(phone_entry, "value", EmptyStr), acc[2]>>)
             ELSE IF Get(phone_entry, "type") = PyStr(<<"mobile">>)
             THEN PhoneLoop(phone_candidates, i + 1,
                            <<acc[1], GetOr(phone_entry, "value", EmptyStr)>>)
             ELSE PhoneLoop(phone_candidates, i + 1, acc)

\* the loop over data["addresses"] with get("formatted") given no default
RECURSIVE AddressLoopNoDefault(_, _, _)
AddressLoopNoDefault(address_candidates, i, address) ==
    IF i > Len(address_candidates) THEN address
    ELSE LET address_entry == address_candidates[i]
         IN  IF Get(address_entry, "type") = PyStr(<<"work">>)
             THEN AddressLoopNoDefault(address_candidates, i + 1,
                                       Get(address_entry, "formatted"))
             ELSE AddressLoopNoDefault(address_candidates, i + 1, address)

\* the loop over data["addresses"]
RECURSIVE AddressLoop(_, _, _)
AddressLoop(address_candidates, i, address) ==
    IF i > Len(address_candidates) THEN address
    ELSE LET address_entry == address_candidates[i]
         IN  IF Get(address_entry, "type") = PyStr(<<"work">>)
             THEN AddressLoop(address_candidates, i + 1,
                              GetOr(address_entry, "formatted", EmptyStr))
             ELSE AddressLoop(address_candidates, i + 1, address)

\* the dict returned for a technical user, with the first name left in
TechnicalProfileWithFirstName(email, last_name, address, phone) ==
    [technicalUser |-> PyBool(TRUE),
     email |-> email,
     firstName |-> PyStr(<< >>),
     lastName |-> last_name,
     address |-> address,
     phone |-> phone]

\* the dict returned for a technical user
TechnicalProfile(email, last_name, address, phone) ==
    [technicalUser |-> PyBool(TRUE),
     email |-> email,
     lastName |-> last_name,
     address |-> address,
     phone |-> phone]

\* the attribute compared with "yes"
gerne_per_du(personal_information) ==
    GetOr(personal_information, "GernePerDu", EmptyStr) = PyStr(<<"yes">>)

\* the line break kept only when there are pronouns and the first-name offer
conditional_line_break_both(pronouns, du) == ~(pronouns = EmptyStr \/ du = FALSE)

conditional_line_break(pronouns, du) == ~(pronouns = EmptyStr /\ du = FALSE)

process_user_data(data) ==
    LET technical_user == Get(data, "orgUnitPath") = TechnicalPath
        email == GetOr(data, "primaryEmail", EmptyStr)
        first_name == GetOr(GetOr(data, "name", EmptyDict), "givenName", EmptyStr)
        last_name == GetOr(GetOr(data, "name", EmptyDict), "familyName", EmptyStr)
        phones == PhoneLoop(GetOr(data, "phones", << >>), 1, <<EmptyStr, EmptyStr>>)
        phone == phones[1]
        mobile == phones[2]
        address == AddressLoop(GetOr(data, "addresses", << >>), 1, EmptyStr)
        organizations == GetOr(data, "organizations", << >>)
        jobtitle == IF organizations # << >>
                    THEN GetOr(organizations[1], "title", EmptyStr) ELSE EmptyStr
        department == IF organizations # << >>
                      THEN GetOr(organizations[1], "department", EmptyStr) ELSE EmptyStr
        custom_schemas == GetOr(data, "customSchemas", EmptyDict)
        personal_information == GetOr(custom_schemas, "Personal_Information", EmptyDict)
        contractual_information == GetOr(custom_schemas, "Contractual_Information", EmptyDict)
        pronouns == GetOr(personal_information, "Pronouns", EmptyStr)
        management_role == GetOr(contractual_information, "Management_Role", EmptyStr)
    IN  IF technical_user
        THEN TechnicalProfile(email, last_name, address, phone)
        ELSE [technicalUser |-> PyBool(FALSE),
              email |-> email,
              firstName |-> first_name,
              lastName |-> last_name,
              jobtitle |-> jobtitle,
              address |-> address,
              department |-> department,
              phone |-> phone,
              mobile |-> mobile,
              pronouns |-> pronouns,
              gernePerDu |-> PyBool(gerne_per_du(personal_information)),
              conditionalLineBreak |->
                  PyBool(conditional_line_break(pronouns,
                                                gerne_per_du(personal_information))),
              managementRole |-> management_role]

----------------------------------------------------------------------------
(* Relevance filter (sender.py) *)

\* pre found anywhere in s: re.search in the place of re.match
FoundAnywhere(s, pre) == \E i \in 1..Len(s) : MatchAt(s, pre, i)

\* s starts with pre: what re.match of the pattern "pre.*" decides
StartsWith(s, pre) == MatchAt(s, pre, 1)

\* sub in s
Contains(s, sub) == \E i \in 1..Len(s) : MatchAt(s, sub, i)

check_user_for_relevance(u) ==
    LET org_unit_path == GetOr(u, "orgUnitPath", EmptyStr).val
        primary_email == GetOr(u, "primaryEmail", EmptyStr).val
    IN  /\ ~Truthy(GetOr(u, "suspended", PyBool(FALSE)))
        /\ ~Truthy(GetOr(u, "archived", PyBool(FALSE)))
        /\ ~StartsWith(org_unit_path, <<"/", "Deactivated">>)
        /\ ~StartsWith(org_unit_path, <<"/", "Cloud Identities">>)
        /\ org_unit_path # <<"/", "Xternal", "/", "No drive">>
        /\ org_unit_path # <<"/">>
        /\ ~Contains(primary_email, <<"external">>)
        /\ primary_email # <<"kaiser.soze", "@kaiser-x.com">>
        /\ primary_email # <<"google_tech", "@kaiser-x.com">>

----------------------------------------------------------------------------
(* Signature assembler (data.py) *)

COMPANY_NAME == <<"Kaiser X Labs">>
COMPANY_WEBSITE == <<"http:", "/", "/", "www.kaiser-x.com", "/">>

CommonReplacements ==
    << <<"lastName", NORMAL_REPLACEMENT>>,
       <<"address", NORMAL_REPLACEMENT>>,
       <<"phone", CUSTOM_PARAGRAPH_WITH_VARIABLE>>,
       <<"email", NORMAL_REPLACEMENT>> >>

\* the additional list with mobile moved to its front
AdditionalReplacementsMobileFirst ==
    << <<"mobile", CUSTOM_PARAGRAPH_WITH_VARIABLE>>,
       <<"firstName", NORMAL_REPLACEMENT>>,
       <<"jobtitle", NORMAL_REPLACEMENT>>,
       <<"managementRole", CUSTOM_PARAGRAPH_WITH_VARIABLE>>,
       <<"pronouns", CUSTOM_PARAGRAPH_WITH_VARIABLE>>,
       <<"gernePerDu", CUSTOM_PARAGRAPH_WITHOUT_VARIABLE>>,
       <<"conditionalLineBreak", CUSTOM_PARAGRAPH_WITHOUT_VARIABLE>> >>

AdditionalReplacements ==
    << <<"firstName", NORMAL_REPLACEMENT>>,
       <<"jobtitle", NORMAL_REPLACEMENT>>,
       <<"managementRole", CUSTOM_PARAGRAPH_WITH_VARIABLE>>,
       <<"pronouns", CUSTOM_PARAGRAPH_WITH_VARIABLE>>,
       <<"gernePerDu", CUSTOM_PARAGRAPH_WITHOUT_VARIABLE>>,
       <<"conditionalLineBreak", CUSTOM_PARAGRAPH_WITHOUT_VARIABLE>>,
       <<"mobile", CUSTOM_PARAGRAPH_WITH_VARIABLE>> >>

\* the full list whatever the profile
ReplacementsAlwaysFull(data) == CommonReplacements \o AdditionalReplacements

\* the list build_signature puts together for a profile
Replacements(data) ==
    IF Truthy(Get(data, "technicalUser"))
    THEN CommonReplacements
    ELSE CommonReplacements \o AdditionalReplacements

\* one turn of the loop over replacements
ApplyReplacement ==
    /\ pc = "replacements"
    /\ idx < Len(Replacements(employee_data))
    /\ LET r == Replacements(employee_data)[idx + 1]
       IN  /\ keyword' = r[1]
           /\ operator' = r[2]
           /\ text' = replace_template_variable(text, r[1], r[2], employee_data)
           /\ applied' = Append(applied, r[1])
    /\ input' = text
    /\ idx' = idx + 1
    /\ UNCHANGED <<pc, employee_data, template, user, result>>
    /\ UNCHANGED <<sender_vars, receiver_vars>>

\* html_template.replace("{company}", COMPANY_NAME), after the loop
ReplaceCompany ==
    /\ pc = "replacements"
    /\ idx = Len(Replacements(employee_data))
    /\ text' = Replace(text, VarMarker("company"), COMPANY_NAME)
    /\ applied' = Append(applied, "company")
    /\ input' = text
    /\ pc' = "web"
    /\ UNCHANGED <<keyword, operator, employee_data, template, idx, user, result>>
    /\ UNCHANGED <<sender_vars, receiver_vars>>

\* html_template.replace("{web}", COMPANY_WEBSITE), and the return
ReplaceWeb ==
    /\ pc = "web"
    /\ text' = Replace(text, VarMarker("web"), COMPANY_WEBSITE)
    /\ applied' = Append(applied, "web")
    /\ input' = text
    /\ result' = PyStr(text')
    /\ pc' = "built"
    /\ UNCHANGED <<keyword, operator, employee_data, template, idx, user>>
    /\ UNCHANGED <<sender_vars, receiver_vars>>

\* build_signature as a function: the loop, then the two constants
RECURSIVE ApplyAll(_, _, _, _)
ApplyAll(t, rs, i, data) ==
    IF i > Len(rs) THEN t
    ELSE ApplyAll(replace_template_variable(t, rs[i][1], rs[i][2], data), rs, i + 1, data)

build_signature(html_template, data) ==
    Replace(Replace(ApplyAll(html_template, Replacements(data), 1, data),
                    VarMarker("company"), COMPANY_NAME),
            VarMarker("web"), COMPANY_WEBSITE)

----------------------------------------------------------------------------
(* Bounded inputs: directory records *)

\* a key that may be missing: absent, or present with a value of S
Opt(S) == { [has |-> FALSE] } \cup { [has |-> TRUE, v |-> x] : x \in S }

\* the dict holding the keys of f that are present
MkDict(f) == [k \in { x \in DOMAIN f : f[x].has } |-> f[k].v]

\* longest list of phones and of addresses of a record
MaxEntries == 2

SeqsUpTo(S, n) == UNION { [1..m -> S] : m \in 0..n }

S1(a) == PyStr(<<a>>)

PhoneEntries ==
    { [type |-> S1("work"), value |-> S1("1")],
      [type |-> S1("work"), value |-> S1("2")],
      [type |-> S1("mobile"), value |-> S1("3")],
      [type |-> S1("mobile"), value |-> S1("4")],
      [type |-> S1("home"), value |-> S1("5")],
      [value |-> S1("6")],
      [type |-> S1("work")] }

AddressEntries ==
    { [type |-> S1("work"), formatted |-> S1("A")],
      [type |-> S1("work"), formatted |-> S1("B")],
      [type |-> S1("home"), formatted |-> S1("C")],
      [formatted |-> S1("D")],
      [type |-> S1("work")] }

StaffPath == PyStr(<<"/", "Staff">>)
TechnicalSubPath == PyStr(<<"/", "Orga Accounts", "/", "Bots">>)

Names ==
    { EmptyDict,
      [givenName |-> S1("Ana")],
      [familyName |-> S1("Lind")],
      [givenName |-> S1("Ana"), familyName |-> S1("Lind")] }

Organizations ==
    { << >>,
      <<EmptyDict>>,
      <<[title |-> S1("Engineer")]>>,
      <<[title |-> S1("Engineer"), department |-> S1("IT")]>>,
      <<[title |-> S1("Engineer"), department |-> S1("IT")],
        [title |-> S1("Coach"), department |-> S1("HR")]>> }

PersonalInformations ==
    { MkDict([Pronouns |-> p, GernePerDu |-> g]) :
        p \in Opt({EmptyStr, S1("she")}), g \in Opt({S1("yes"), S1("no"), S1("Yes")}) }

ContractualInformations ==
    { EmptyDict, [Management_Role |-> EmptyStr], [Management_Role |-> S1("CEO")] }

CustomSchemas ==
    { MkDict([Personal_Information |-> pi, Contractual_Information |-> ci]) :
        pi \in Opt(PersonalInformations), ci \in Opt(ContractualInformations) }

\* records that vary the contact lists
ContactRecords ==
    { MkDict([orgUnitPath |-> o, phones |-> ph, addresses |-> ad]) :
        o \in Opt({TechnicalPath, StaffPath}),
        ph \in Opt(SeqsUpTo(PhoneEntries, MaxEntries)),
        ad \in Opt(SeqsUpTo(AddressEntries, MaxEntries)) }

\* records that vary the name, the organizations and the custom attributes
AttributeRecords ==
    { MkDict([orgUnitPath |-> o, primaryEmail |-> e, name |-> n,
              organizations |-> og, customSchemas |-> cs]) :
        o \in Opt({TechnicalPath, StaffPath, TechnicalSubPath}),
        e \in Opt({PyStr(<<"ana", "@kaiser-x.com">>)}),
        n \in Opt(Names),
        og \in Opt(Organizations),
        cs \in Opt(CustomSchemas) }

----------------------------------------------------------------------------
(* One call of process_user_data *)

InitNormalize ==
    /\ pc = "normalize"
    /\ user \in ContactRecords \cup AttributeRecords
    /\ employee_data = EmptyDict
    /\ text = << >>
    /\ keyword = "none"
    /\ operator = "none"
    /\ input = << >>
    /\ template = << >>
    /\ idx = 0
    /\ applied = << >>
    /\ result = PyNone
    /\ SenderIdle
    /\ ReceiverIdle

Normalize ==
    /\ pc = "normalize"
    /\ employee_data' = process_user_data(user)
    /\ pc' = "normalized"
    /\ UNCHANGED <<text, keyword, operator, input, template, idx, applied, user, result>>
    /\ UNCHANGED <<sender_vars, receiver_vars>>

NextNormalize == Normalize

SpecNormalize == InitNormalize /\ [][NextNormalize]_vars

----------------------------------------------------------------------------
(* One call of check_user_for_relevance *)

Paths ==
    { << >>,
      <<"/">>,
      <<"/", "Deactivated">>,
      <<"/", "Deactivated", "/", "Old">>,
      <<"/", "Deactivated", "2024">>,
      <<"/", "Cloud Identities">>,
      <<"/", "Cloud Identities", "/", "Guests">>,
      <<"/", "Xternal", "/", "No drive">>,
      <<"/", "Xternal", "/", "No drive", "/", "Sub">>,
      <<"/", "Xternal">>,
      <<"/", "Staff">>,
      <<"/", "Staff", "/", "Deactivated">>,
      <<"/", "Orga Accounts">> }

Emails ==
    { << >>,
      <<"ana", "@kaiser-x.com">>,
      <<"ana.", "external", "@kaiser-x.com">>,
      <<"external">>,
      <<"ana", "@", "external", ".org">>,
      <<"External", "@kaiser-x.com">>,
      <<"kaiser.soze", "@kaiser-x.com">>,
      <<"kaiser.soze", "@kaiser-x.com", ".de">>,
      <<"google_tech", "@kaiser-x.com">> }

RelevanceRecords ==
    { MkDict([suspended |-> s, archived |-> a, orgUnitPath |-> o, primaryEmail |-> e]) :
        s \in Opt({PyBool(TRUE), PyBool(FALSE)}),
        a \in Opt({PyBool(TRUE), PyBool(FALSE)}),
        o \in Opt({ PyStr(x) : x \in Paths }),
        e \in Opt({ PyStr(x) : x \in Emails }) }

InitRelevance ==
    /\ pc = "relevance"
    /\ user \in RelevanceRecords
    /\ employee_data = EmptyDict
    /\ text = << >>
    /\ keyword = "none"
    /\ operator = "none"
    /\ input = << >>
    /\ template = << >>
    /\ idx = 0
    /\ applied = << >>
    /\ result = PyNone
    /\ SenderIdle
    /\ ReceiverIdle

CheckRelevance ==
    /\ pc = "relevance"
    /\ result' = PyBool(check_user_for_relevance(user))
    /\ pc' = "checked"
    /\ UNCHANGED <<text, keyword, operator, employee_data, input, template, idx, applied, user>>
    /\ UNCHANGED <<sender_vars, receiver_vars>>

NextRelevance == CheckRelevance

SpecRelevance == InitRelevance /\ [][NextRelevance]_vars

----------------------------------------------------------------------------
(* One call of build_signature *)

\* longest template handed to build_signature, in pieces
MaxBuildPieces == 3

BuildPieces ==
    { OpenMarker("phone"), CloseMarker("phone"), VarMarker("phone"),
      VarMarker("firstName"), VarMarker("lastName"), VarMarker("company"),
      OpenMarker("gernePerDu"), CloseMarker("gernePerDu") }

BuildTemplates ==
    { Flatten(ps) : ps \in SeqsUpTo(BuildPieces, MaxBuildPieces) }
        \cup { PhoneScenario, DuScenario }

AnaLind == [givenName |-> S1("Ana"), familyName |-> S1("Lind")]

\* the records whose profiles are built
BuildRecords ==
    { [orgUnitPath |-> StaffPath,
       primaryEmail |-> PyStr(<<"ana", "@kaiser-x.com">>),
       name |-> AnaLind,
       phones |-> <<[type |-> S1("work"), value |-> S1("123")],
                    [type |-> S1("mobile"), value |-> S1("3")]>>,
       organizations |-> <<[title |-> S1("Engineer"), department |-> S1("IT")]>>,
       customSchemas |->
           [Personal_Information |-> [Pronouns |-> S1("she"), GernePerDu |-> S1("yes")],
            Contractual_Information |-> [Management_Role |-> S1("CEO")]]],
      [orgUnitPath |-> StaffPath],
      [orgUnitPath |-> StaffPath,
       name |-> [givenName |-> PyStr(VarMarker("lastName")),
                 familyName |-> PyStr(VarMarker("company"))]],
      [orgUnitPath |-> TechnicalPath,
       name |-> AnaLind,
       phones |-> <<[type |-> S1("work"), value |-> S1("123")]>>],
      [orgUnitPath |-> TechnicalPath, name |-> AnaLind],
      [orgUnitPath |-> TechnicalPath,
       name |-> [familyName |-> PyStr(OpenMarker("phone"))]] }

NormalizedProfiles == { process_user_data(r) : r \in BuildRecords }

\* the dicts of the spec's scenarios
ScenarioProfiles ==
    { [firstName |-> S1("Ana"), phone |-> S1("123")],
      [firstName |-> S1("Ana"), phone |-> EmptyStr],
      [gernePerDu |-> PyBool(TRUE)],
      [gernePerDu |-> PyBool(FALSE)] }

InitBuild ==
    /\ pc = "replacements"
    /\ \/ template \in BuildTemplates /\ employee_data \in NormalizedProfiles
       \/ template \in {PhoneScenario, DuScenario} /\ employee_data \in ScenarioProfiles
    /\ text = template
    /\ input = template
    /\ keyword = "none"
    /\ operator = "none"
    /\ idx = 0
    /\ applied = << >>
    /\ user = EmptyDict
    /\ result = PyNone
    /\ SenderIdle
    /\ ReceiverIdle

NextBuild == ApplyReplacement \/ ReplaceCompany \/ ReplaceWeb

SpecBuild == InitBuild /\ [][NextBuild]_vars

----------------------------------------------------------------------------
(* send_messages_to_pubsub (sender.py) *)

\* message.get('employee_id', 'unknown')
EmployeeIdOf(message) == GetOr(message, "employee_id", PyStr(<<"unknown">>))

\* the early return for an empty list
NoMessages ==
    /\ pc = "send"
    /\ messages = << >>
    /\ pc' = "returned"
    /\ UNCHANGED <<text, keyword, operator, employee_data, input, template, idx, applied,
                   user, result>>
    /\ UNCHANGED <<sender_vars, receiver_vars>>

\* the publisher client and the topic path; an error here is logged and
\* raised again by the outer handler
CreatePublisher ==
    /\ pc = "send"
    /\ messages # << >>
    /\ \E ok \in BOOLEAN : pc' = IF ok THEN "publish" ELSE "raised"
    /\ UNCHANGED <<text, keyword, operator, employee_data, input, template, idx, applied,
                   user, result>>
    /\ UNCHANGED <<sender_vars, receiver_vars>>

\* one turn of the loop over messages: publish returns a future, which is
\* appended, or raises, which is logged with the message's own employee_id
PublishMessage ==
    /\ pc = "publish"
    /\ Len(attempts) < Len(messages)
    /\ LET n == Len(attempts) + 1
       IN  /\ attempts' = Append(attempts, n)
           /\ \E raises \in BOOLEAN :
                 IF raises
                 THEN /\ log' = Append(log, [stage |-> "publish",
                                             employee_id |-> EmployeeIdOf(messages[n]),
                                             message |-> n])
                      /\ UNCHANGED futures
                 ELSE /\ futures' = Append(futures, [message |-> n, state |-> "pending"])
                      /\ UNCHANGED log
           /\ pc' = IF n = Len(messages) THEN "results" ELSE "publish"
    /\ UNCHANGED <<text, keyword, operator, employee_data, input, template, idx, applied,
                   user, result>>
    /\ UNCHANGED <<html_template_user, html_template_technical_user, employees,
                   relevant_employees, messages, successful_publishes, resolved>>
    /\ UNCHANGED receiver_vars

\* one turn of the loop over enumerate(futures): the result of the future
\* is counted, or its error is logged with the employee_id of messages[i]
ResolveFuture ==
    /\ pc = "results"
    /\ resolved < Len(futures)
    /\ LET n == resolved + 1
       IN  \E ok \in BOOLEAN :
             IF ok
             THEN /\ futures' = [futures EXCEPT ![n].state = "done"]
                  /\ successful_publishes' = successful_publishes + 1
                  /\ UNCHANGED log
             ELSE /\ futures' = [futures EXCEPT ![n].state = "failed"]
                  /\ log' = Append(log, [stage |-> "future",
                                         employee_id |-> EmployeeIdOf(messages[n]),
                                         message |-> futures[n].message])
                  /\ UNCHANGED successful_publishes
    /\ resolved' = resolved + 1
    /\ UNCHANGED <<pc, text, keyword, operator, employee_data, input, template, idx,
                   applied, user, result>>
    /\ UNCHANGED <<html_template_user, html_template_technical_user, employees,
                   relevant_employees, messages, attempts>>
    /\ UNCHANGED receiver_vars

\* the summary line "Successfully published n/m", and the return
LogSummary ==
    /\ pc = "results"
    /\ resolved = Len(futures)
    /\ result' = [kind |-> "summary", published |-> successful_publishes,
                  of |-> Len(messages)]
    /\ pc' = "returned"
    /\ UNCHANGED <<text, keyword, operator, employee_data, input, template, idx, applied,
                   user>>
    /\ UNCHANGED <<sender_vars, receiver_vars>>

NextPublish == NoMessages \/ CreatePublisher \/ PublishMessage \/ ResolveFuture \/ LogSummary

\* longest list of messages handed to send_messages_to_pubsub
MaxMessages == 3

PublishInputs ==
    { [employee_id |-> PyStr(<<"ana", "@kaiser-x.com">>), signature |-> S1("A")],
      [employee_id |-> PyStr(<<"bot", "@kaiser-x.com">>), signature |-> S1("B")],
      [employee_id |-> PyNone, signature |-> S1("C")] }

InitPublish ==
    /\ pc = "send"
    /\ messages \in SeqsUpTo(PublishInputs, MaxMessages)
    /\ html_template_user = << >>
    /\ html_template_technical_user = << >>
    /\ employees = << >>
    /\ relevant_employees = << >>
    /\ futures = << >>
    /\ successful_publishes = 0
    /\ attempts = << >>
    /\ log = << >>
    /\ resolved = 0
    /\ text = << >>
    /\ keyword = "none"
    /\ operator = "none"
    /\ employee_data = EmptyDict
    /\ input = << >>
    /\ template = << >>
    /\ idx = 0
    /\ applied = << >>
    /\ user = EmptyDict
    /\ result = PyNone
    /\ ReceiverIdle

SpecPublish == InitPublish /\ [][NextPublish]_vars

----------------------------------------------------------------------------
(* main (sender.py): one generation run *)

\* the list handed on as it is
keep_all_users(users) == users

remove_irrelevant_users(users) ==
    SelectSeq(users, LAMBDA u : check_user_for_relevance(u))

\* remove_irrelevant_users(employees), and the empty list of messages
FilterEmployees ==
    /\ pc = "main"
    /\ relevant_employees' = remove_irrelevant_users(employees)
    /\ messages' = << >>
    /\ pc' = "messages"
    /\ UNCHANGED <<text, keyword, operator, employee_data, input, template, idx, applied,
                   user, result>>
    /\ UNCHANGED <<html_template_user, html_template_technical_user, employees, futures,
                   successful_publishes, attempts, log, resolved>>
    /\ UNCHANGED receiver_vars

\* one turn of the loop over relevant_employees
BuildMessage ==
    /\ pc = "messages"
    /\ Len(messages) < Len(relevant_employees)
    /\ LET employee == relevant_employees[Len(messages) + 1]
           employee_id == Get(employee, "primaryEmail")
           processed_user_data == process_user_data(employee)
           html_template == IF Truthy(Get(processed_user_data, "technicalUser"))
                            THEN html_template_technical_user
                            ELSE html_template_user
           signature == build_signature(html_template, processed_user_data)
       IN  messages' = Append(messages, [employee_id |-> employee_id,
                                         signature |-> PyStr(signature)])
    /\ UNCHANGED <<pc, text, keyword, operator, employee_data, input, template, idx,
                   applied, user, result>>
    /\ UNCHANGED <<html_template_user, html_template_technical_user, employees,
                   relevant_employees, futures, successful_publishes, attempts, log,
                   resolved>>
    /\ UNCHANGED receiver_vars

\* send_messages_to_pubsub(messages), after the loop
SendMessages ==
    /\ pc = "messages"
    /\ Len(messages) = Len(relevant_employees)
    /\ pc' = "send"
    /\ UNCHANGED <<text, keyword, operator, employee_data, input, template, idx, applied,
                   user, result>>
    /\ UNCHANGED <<sender_vars, receiver_vars>>

NextMain == FilterEmployees \/ BuildMessage \/ SendMessages \/ NextPublish

\* longest list of records get_all_employees returns
MaxEmployees == 2

\* the records of a run: a standard user, a technical account, a
\* suspended user, an external address and a user with no primaryEmail
MainRecords ==
    { [orgUnitPath |-> StaffPath,
       primaryEmail |-> PyStr(<<"ana", "@kaiser-x.com">>),
       name |-> AnaLind,
       phones |-> <<[type |-> S1("work"), value |-> S1("123")]>>],
      [orgUnitPath |-> TechnicalPath,
       primaryEmail |-> PyStr(<<"bot", "@kaiser-x.com">>),
       name |-> [givenName |-> S1("Mail"), familyName |-> S1("Bot")]],
      [orgUnitPath |-> StaffPath,
       primaryEmail |-> PyStr(<<"sue", "@kaiser-x.com">>),
       suspended |-> PyBool(TRUE),
       name |-> [givenName |-> S1("Sue")]],
      [orgUnitPath |-> StaffPath,
       primaryEmail |-> PyStr(<<"eve.", "external", "@kaiser-x.com">>)],
      [orgUnitPath |-> StaffPath, name |-> [givenName |-> S1("Noa")]] }

UserTemplates ==
    { <<"Hi ">> \o VarMarker("firstName") \o <<" ">> \o VarMarker("lastName"),
      PhoneScenario }

TechnicalTemplates ==
    { VarMarker("lastName") \o <<" ">> \o VarMarker("email"),
      OpenMarker("phone") \o VarMarker("phone") \o CloseMarker("phone")
          \o VarMarker("firstName") }

\* the state of main once the templates and the employees are fetched
InitMain ==
    /\ pc = "main"
    /\ html_template_user \in UserTemplates
    /\ html_template_technical_user \in TechnicalTemplates
    /\ employees \in SeqsUpTo(MainRecords, MaxEmployees)
    /\ relevant_employees = << >>
    /\ messages = << >>
    /\ futures = << >>
    /\ successful_publishes = 0
    /\ attempts = << >>
    /\ log = << >>
    /\ resolved = 0
    /\ text = << >>
    /\ keyword = "none"
    /\ operator = "none"
    /\ employee_data = EmptyDict
    /\ input = << >>
    /\ template = << >>
    /\ idx = 0
    /\ applied = << >>
    /\ user = EmptyDict
    /\ result = PyNone
    /\ ReceiverIdle

SpecMain == InitMain /\ [][NextMain]_vars

----------------------------------------------------------------------------
(* update_signature and write_signature_to_drive (receiver.py), with the     *)
(* Drive calls of api.py.  Every request is for the same employee; a step    *)
(* is one call of an external service, and the steps of the requests being   *)
(* handled interleave.                                                       *)

\* the number of requests handled
MaxRequests == 3

Requests == 1..MaxRequests

FileId(n) == [kind |-> "id", val |-> n]

\* update_signature with no handler around the Drive write
update_signature_next_unguarded(step, ok) ==
    CASE step = "credentials" -> IF ok THEN "gmail" ELSE "raised"
      [] step = "gmail"       -> IF ok THEN "drive" ELSE "raised"
      [] step = "drive"       -> IF ok THEN "returned" ELSE "raised"

\* where update_signature goes after a step: an error of the credentials or
\* of the Gmail update is raised again, an error of the Drive write is
\* passed over and True is returned
update_signature_next(step, ok) ==
    CASE step = "credentials" -> IF ok THEN "gmail" ELSE "raised"
      [] step = "gmail"       -> IF ok THEN "drive" ELSE "raised"
      [] step = "drive"       -> "returned"

Outcome(ok) == IF ok THEN "ok" ELSE "error"

\* write_signature_to_drive is over for request r
DriveWriteEnds(r, ok, error) ==
    /\ calls' = [calls EXCEPT ![r][3].outcome = Outcome(ok)]
    /\ drive_error' = [drive_error EXCEPT ![r] = error]
    /\ rpc' = [rpc EXCEPT ![r] = update_signature_next("drive", ok)]

\* api.get_credentials
GetCredentials(r) ==
    /\ pc = "receiver"
    /\ rpc[r] = "credentials"
    /\ \E ok \in BOOLEAN :
          /\ calls' = [calls EXCEPT ![r] =
                           Append(@, [call |-> "get_credentials", outcome |-> Outcome(ok)])]
          /\ rpc' = [rpc EXCEPT ![r] = update_signature_next("credentials", ok)]
    /\ UNCHANGED <<existing_file_id, drive_error, drive>>
    /\ UNCHANGED <<engine_vars, sender_vars>>

\* api.update_gmail_signature
UpdateGmailSignature(r) ==
    /\ pc = "receiver"
    /\ rpc[r] = "gmail"
    /\ \E ok \in BOOLEAN :
          /\ calls' = [calls EXCEPT ![r] =
                           Append(@, [call |-> "update_gmail_signature",
                                      outcome |-> Outcome(ok)])]
          /\ rpc' = [rpc EXCEPT ![r] = update_signature_next("gmail", ok)]
    /\ UNCHANGED <<existing_file_id, drive_error, drive>>
    /\ UNCHANGED <<engine_vars, sender_vars>>

\* write_signature_to_drive is entered and api.check_if_file_exists_in_drive
\* lists the files of the name: an error of the API or more than one file
\* ends the write, else the id found, or None, decides the next call
CheckIfFileExistsInDrive(r) ==
    /\ pc = "receiver"
    /\ rpc[r] = "drive"
    /\ \E ok \in BOOLEAN :
          LET started == [calls EXCEPT ![r] =
                             Append(@, [call |-> "write_signature_to_drive",
                                        outcome |-> "pending"])]
          IN  IF ~ok \/ Cardinality(drive) > 1
              THEN /\ calls' = [started EXCEPT ![r][3].outcome = "error"]
                   /\ drive_error' =
                          [drive_error EXCEPT ![r] = IF ok THEN "duplicate" ELSE "http"]
                   /\ rpc' = [rpc EXCEPT ![r] = update_signature_next("drive", FALSE)]
                   /\ UNCHANGED existing_file_id
              ELSE /\ calls' = started
                   /\ existing_file_id' =
                          [existing_file_id EXCEPT ![r] =
                              IF drive = {} THEN PyNone
                              ELSE FileId(CHOOSE f \in drive : TRUE)]
                   /\ rpc' = [rpc EXCEPT ![r] = IF drive = {} THEN "create" ELSE "update"]
                   /\ UNCHANGED drive_error
    /\ UNCHANGED drive
    /\ UNCHANGED <<engine_vars, sender_vars>>

\* api.create_file_in_drive: a new file of the name, whatever the folder
\* holds; an HttpError is raised, any other error gives None
CreateFileInDrive(r) ==
    /\ pc = "receiver"
    /\ rpc[r] = "create"
    /\ \E outcome \in {"created", "http", "none"} :
          /\ drive' = IF outcome = "created" THEN drive \cup {r} ELSE drive
          /\ DriveWriteEnds(r, outcome # "http", IF outcome = "created" THEN "no" ELSE outcome)
    /\ UNCHANGED existing_file_id
    /\ UNCHANGED <<engine_vars, sender_vars>>

\* api.update_file_in_drive: new content for the file found
UpdateFileInDrive(r) ==
    /\ pc = "receiver"
    /\ rpc[r] = "update"
    /\ \E ok \in BOOLEAN : DriveWriteEnds(r, ok, IF ok THEN "no" ELSE "http")
    /\ UNCHANGED <<existing_file_id, drive>>
    /\ UNCHANGED <<engine_vars, sender_vars>>

NextReceiver ==
    \E r \in Requests :
        \/ GetCredentials(r)
        \/ UpdateGmailSignature(r)
        \/ CheckIfFileExistsInDrive(r)
        \/ CreateFileInDrive(r)
        \/ UpdateFileInDrive(r)

\* the requests received, and a folder with no file or one file of the name
InitReceiver ==
    /\ pc = "receiver"
    /\ rpc = [r \in Requests |-> "credentials"]
    /\ calls = [r \in Requests |-> << >>]
    /\ existing_file_id = [r \in Requests |-> PyNone]
    /\ drive_error = [r \in Requests |-> "no"]
    /\ drive \in { {}, {0} }
    /\ text = << >>
    /\ keyword = "none"
    /\ operator = "none"
    /\ employee_data = EmptyDict
    /\ input = << >>
    /\ template = << >>
    /\ idx = 0
    /\ applied = << >>
    /\ user = EmptyDict
    /\ result = PyNone
    /\ SenderIdle

SpecReceiver == InitReceiver /\ [][NextReceiver]_vars

----------------------------------------------------------------------------
(* Every operation *)

Init == InitRender \/ InitBuild \/ InitNormalize \/ InitRelevance \/ InitPublish
            \/ InitMain \/ InitReceiver

Next == NextRender \/ NextBuild \/ NextNormalize \/ NextRelevance \/ NextPublish
            \/ NextMain \/ NextReceiver

Spec == Init /\ [][Next]_vars

----------------------------------------------------------------------------
(* What the properties are stated with: occurrences and blocks, by position *)

\* the positions of t where pat occurs
Occurrences(t, pat) ==
    { i \in 1..Len(t) : i + Len(pat) - 1 <= Len(t) /\ SubSeq(t, i, i + Len(pat) - 1) = pat }

Count(t, pat) == Cardinality(Occurrences(t, pat))

\* t with the atoms at the positions of drop left out
Without(t, drop) ==
    LET kept == (1..Len(t)) \ drop
        Nth(n) == CHOOSE i \in kept : Cardinality({ j \in kept : j <= i }) = n
    IN  [n \in 1..Cardinality(kept) |-> t[Nth(n)]]

\* t with every occurrence of the marker pat replaced by rep
EveryOccurrenceReplaced(t, pat, rep) ==
    LET occ == Occurrences(t, pat)
        inside(i) == \E o \in occ : o < i /\ i < o + Len(pat)
    IN  Flatten([i \in 1..Len(t) |->
                    IF i \in occ THEN rep ELSE IF inside(i) THEN << >> ELSE <<t[i]>>])

\* the positions where a block of k can start: an opening marker with a
\* closing marker somewhere after it
BlockStarts(t, k) ==
    { i \in Occurrences(t, OpenMarker(k)) :
        \E j \in Occurrences(t, CloseMarker(k)) : j >= i + Len(OpenMarker(k)) }

\* the last position of the block starting at i: the end of the first
\* closing marker after the opening marker
BlockEnd(t, k, i) ==
    LET closes == { j \in Occurrences(t, CloseMarker(k)) : j >= i + Len(OpenMarker(k)) }
        first == CHOOSE j \in closes : \A j2 \in closes : j <= j2
    IN  first + Len(CloseMarker(k)) - 1

\* S is the set of blocks of k in t, read left to right: the blocks do not
\* overlap, and every place a block can start is in a block that starts at
\* or before it
IsBlockSet(t, k, S) ==
    /\ S \subseteq BlockStarts(t, k)
    /\ \A a, b \in S : a < b => BlockEnd(t, k, a) < b
    /\ \A p \in BlockStarts(t, k) : \E a \in S : a <= p /\ p <= BlockEnd(t, k, a)

Covered(t, k, S) == { i \in 1..Len(t) : \E a \in S : a <= i /\ i <= BlockEnd(t, k, a) }

\* out is t with every block of k removed
IsBlocksRemoved(t, k, out) ==
    \E S \in SUBSET BlockStarts(t, k) :
        IsBlockSet(t, k, S) /\ out = Without(t, Covered(t, k, S))

\* t holds an opening marker of k with no closing marker after it
Unterminated(t, k) ==
    \E i \in Occurrences(t, OpenMarker(k)) :
        \A j \in Occurrences(t, CloseMarker(k)) : j < i + Len(OpenMarker(k))

Markers(k) == { VarMarker(k), OpenMarker(k), CloseMarker(k) }

\* the runs of three and of four atoms of t: every marker t holds is one
Slices(t) ==
    { SubSeq(t, i, i + 2) : i \in 1..(Len(t) - 2) }
        \cup { SubSeq(t, i, i + 3) : i \in 1..(Len(t) - 3) }

\* an engine pass has just run
AfterPass == pc = "rendered" \/ (pc = "replacements" /\ idx > 0)

----------------------------------------------------------------------------
(* Properties *)

ActiveKeywords(data) ==
    { Replacements(data)[i][1] : i \in 1..Len(Replacements(data)) }

\* C1: the signature build_signature returns for a normalized profile holds
\* no marker ({k}, {k/} or {/k}) of a keyword of the list applied for it
C1_NoResidualMarker ==
    (pc = "built" /\ employee_data \in NormalizedProfiles) =>
        \A k \in ActiveKeywords(employee_data) :
            \A m \in Markers(k) : Count(text, m) = 0

\* C2: a conditional-block pass for k on a text with an opening marker that
\* no closing marker follows ends in a template syntax error naming k
C2_UnterminatedBlockIsError ==
    ( /\ pc = "rendered"
      /\ operator \in {CUSTOM_PARAGRAPH_WITH_VARIABLE, CUSTOM_PARAGRAPH_WITHOUT_VARIABLE}
      /\ Unterminated(input, keyword) ) =>
        result.kind = "template_syntax_error"

\* C3: ConditionalBlockWithValue with a falsy value (empty, false, absent)
\* returns the text with every block removed, a block running from an
\* opening marker to the first closing marker after it, whatever lies
\* between; the text outside the blocks is kept as it is
C3_FalsyRemovesBlocks ==
    ( /\ pc = "rendered"
      /\ operator = CUSTOM_PARAGRAPH_WITH_VARIABLE
      /\ ~Truthy(Get(employee_data, keyword)) ) =>
        IsBlocksRemoved(input, keyword, text)

\* two blocks are deleted, and the text before, between and after them,
\* a marker of another keyword included, is kept
C3_Witness ==
    /\ pc = "rendered"
    /\ operator = CUSTOM_PARAGRAPH_WITH_VARIABLE
    /\ employee_data = [phone |-> EmptyStr]
    /\ input = TwoBlocks("phone")
    /\ text = <<"a", "c", "\n">> \o VarMarker("mobile") \o <<"d">>

\* what the spec's phone scenario renders to
PhoneScenarioFilled == <<"Hi ", "Ana", ", ", "Call me: ", "123">>
PhoneScenarioEmpty == <<"Hi ", "Ana", ", ">>

\* C4: ConditionalBlockWithValue with a truthy value strips the delimiter
\* markers, keeps what they enclose and then puts the value in the place of
\* the variable marker; build on the spec's phone template gives
\* "Hi Ana, Call me: 123" with phone "123" and "Hi Ana, " with phone ""
C4_TruthyKeepsBlock ==
    /\ ( /\ pc = "replacements" /\ idx > 0
         /\ operator = CUSTOM_PARAGRAPH_WITH_VARIABLE
         /\ Truthy(Get(employee_data, keyword)) ) =>
           text = EveryOccurrenceReplaced(
                      EveryOccurrenceReplaced(
                          EveryOccurrenceReplaced(input, OpenMarker(keyword), << >>),
                          CloseMarker(keyword), << >>),
                      VarMarker(keyword), Str(employee_data[keyword]))
    /\ (pc = "built" /\ template = PhoneScenario) =>
           /\ employee_data = [firstName |-> S1("Ana"), phone |-> S1("123")]
                  => result = PyStr(PhoneScenarioFilled)
           /\ employee_data = [firstName |-> S1("Ana"), phone |-> EmptyStr]
                  => result = PyStr(PhoneScenarioEmpty)

C4_Witness ==
    /\ pc = "built"
    /\ template = PhoneScenario
    /\ employee_data = [firstName |-> S1("Ana"), phone |-> S1("123")]
    /\ result = PyStr(PhoneScenarioFilled)

\* C5: ConditionalBlockOnly strips the delimiter markers and keeps the rest
\* when the value is the boolean true, and deletes every block for any
\* other value, a non-empty string included
C5_BlockOnly ==
    /\ (pc = "rendered" /\ operator = CUSTOM_PARAGRAPH_WITHOUT_VARIABLE) =>
           IF IsTrue(Get(employee_data, keyword))
           THEN text = EveryOccurrenceReplaced(
                           EveryOccurrenceReplaced(input, OpenMarker(keyword), << >>),
                           CloseMarker(keyword), << >>)
           ELSE IsBlocksRemoved(input, keyword, text)
    /\ ( /\ pc = "rendered" /\ operator = CUSTOM_PARAGRAPH_WITHOUT_VARIABLE
         /\ input = DuScenario /\ keyword = "gernePerDu" ) =>
           /\ employee_data = [gernePerDu |-> PyBool(TRUE)]
                  => text = <<"Feel free to use first name">>
           /\ employee_data = [gernePerDu |-> PyBool(FALSE)] => text = << >>

\* a non-empty string is not the boolean true: the block goes
C5_Witness ==
    /\ pc = "rendered"
    /\ operator = CUSTOM_PARAGRAPH_WITHOUT_VARIABLE
    /\ employee_data = [phone |-> S1("123")]
    /\ input = <<"x">> \o OpenMarker("phone") \o VarMarker("phone") \o CloseMarker("phone")
    /\ text = <<"x">>

StandardOnlyKeywords ==
    { "firstName", "jobtitle", "department", "mobile", "pronouns", "managementRole",
      "gernePerDu", "conditionalLineBreak" }

StandardOnlyMarkers == UNION { Markers(k) : k \in StandardOnlyKeywords }

TechnicalOrder == <<"lastName", "address", "phone", "email">>

StandardOrder ==
    <<"lastName", "address", "phone", "email", "firstName", "jobtitle", "managementRole",
      "pronouns", "gernePerDu", "conditionalLineBreak", "mobile">>

IsPrefix(a, b) == Len(a) <= Len(b) /\ SubSeq(b, 1, Len(a)) = a

InBuild == pc \in {"replacements", "web", "built"}

\* C6 as stated: for a technical profile every marker of a standard-only
\* keyword that the template holds is still in the signature
C6_MarkersStillPresent ==
    (pc = "built" /\ Truthy(Get(employee_data, "technicalUser"))) =>
        \A m \in StandardOnlyMarkers : Count(text, m) >= Count(template, m)

\* C6, amended: for a technical profile no pass runs for a standard-only
\* keyword, and a marker of such a keyword goes only with a phone block
\* that the phone pass deletes around it; every other step keeps it
C6_NoStandardOnlyPass ==
    (InBuild /\ Truthy(Get(employee_data, "technicalUser"))) =>
        /\ IsPrefix(applied, TechnicalOrder \o <<"company", "web">>)
        /\ \A i \in 1..Len(applied) : applied[i] \notin StandardOnlyKeywords
        /\ LET blocks == CHOOSE S \in SUBSET BlockStarts(input, "phone") :
                              IsBlockSet(input, "phone", S)
               before == IF /\ pc = "replacements" /\ keyword = "phone"
                            /\ ~Truthy(Get(employee_data, "phone"))
                         THEN Without(input, Covered(input, "phone", blocks))
                         ELSE input
           IN  \A m \in StandardOnlyMarkers \cap Slices(before) :
                   Count(text, m) >= Count(before, m)

\* a technical profile with a phone: the first-name marker comes through
C6_Witness ==
    /\ pc = "built"
    /\ Truthy(Get(employee_data, "technicalUser"))
    /\ template = OpenMarker("phone") \o VarMarker("firstName") \o CloseMarker("phone")
    /\ text = VarMarker("firstName")

\* C7: the field passes run in the declared order, the common list and for
\* a standard profile the additional list, and {company} and {web} are
\* substituted after the last field pass, for either shape of profile
\* (jobtitle and conditionalLineBreak are the code's names of jobTitle and
\* showPronounLine)
C7_DeclaredOrder ==
    InBuild =>
        LET order == IF Truthy(Get(employee_data, "technicalUser"))
                     THEN TechnicalOrder ELSE StandardOrder
        IN  /\ IsPrefix(applied, order \o <<"company", "web">>)
            /\ pc = "replacements" => applied = SubSeq(order, 1, idx)
            /\ pc = "web" => applied = order \o <<"company">>
            /\ pc = "built" => applied = order \o <<"company", "web">>

\* a last name that reads {company} is put in by the first pass and
\* replaced by the company name at the end
C7_Witness ==
    /\ pc = "built"
    /\ template = VarMarker("lastName")
    /\ Get(employee_data, "lastName") = PyStr(VarMarker("company"))
    /\ ~Truthy(Get(employee_data, "technicalUser"))
    /\ Len(applied) = 13
    /\ text = COMPANY_NAME

\* the first entry of the list whose type is tag, as the dict it is
FirstEntry(entries, tag) ==
    LET hits == { i \in 1..Len(entries) : Get(entries[i], "type") = PyStr(<<tag>>) }
    IN  IF hits = {} THEN EmptyDict
        ELSE entries[CHOOSE i \in hits : \A j \in hits : i <= j]

\* C8: address is the formatted value of the first address tagged work,
\* phone the value of the first phone tagged work, mobile the value of the
\* first phone tagged mobile, and the empty string when no entry has the tag
C8_FirstMatchWins ==
    pc = "normalized" =>
        /\ employee_data["address"] =
               GetOr(FirstEntry(GetOr(user, "addresses", << >>), "work"), "formatted", EmptyStr)
        /\ employee_data["phone"] =
               GetOr(FirstEntry(GetOr(user, "phones", << >>), "work"), "value", EmptyStr)
        /\ "mobile" \in DOMAIN employee_data =>
               employee_data["mobile"] =
                   GetOr(FirstEntry(GetOr(user, "phones", << >>), "mobile"), "value", EmptyStr)

TechnicalKeys == { "technicalUser", "email", "lastName", "address", "phone" }

StandardKeys ==
    TechnicalKeys \cup
        { "firstName", "jobtitle", "department", "mobile", "pronouns", "gernePerDu",
          "conditionalLineBreak", "managementRole" }

\* C9: a profile has one of two shapes, decided by the technical flag, and
\* the flag is true exactly when the org-unit path is "/Orga Accounts"
C9_TwoShapes ==
    pc = "normalized" =>
        LET technical == /\ "orgUnitPath" \in DOMAIN user
                         /\ user["orgUnitPath"].val = <<"/", "Orga Accounts">>
        IN  /\ employee_data["technicalUser"] = PyBool(technical)
            /\ DOMAIN employee_data = IF technical THEN TechnicalKeys ELSE StandardKeys

C9_Witness ==
    /\ pc = "normalized"
    /\ employee_data["technicalUser"] = PyBool(TRUE)
    /\ "name" \in DOMAIN user
    /\ "givenName" \in DOMAIN user["name"]
    /\ DOMAIN employee_data = TechnicalKeys

\* C10: a record is relevant exactly when it is not suspended, not
\* archived, its path starts neither with /Deactivated nor with
\* /Cloud Identities, is neither /Xternal/No drive nor /, and its email
\* neither holds "external" nor is a reserved account; a missing field
\* counts as false or empty, and a boolean comes back in every case
C10_RelevantIff ==
    pc = "checked" =>
        LET has(k) == k \in DOMAIN user
            path == IF has("orgUnitPath") THEN user["orgUnitPath"].val ELSE << >>
            mail == IF has("primaryEmail") THEN user["primaryEmail"].val ELSE << >>
            starts(pre) == Len(path) >= Len(pre) /\ SubSeq(path, 1, Len(pre)) = pre
        IN  /\ result.kind = "bool"
            /\ result.val <=>
                 /\ ~(has("suspended") /\ user["suspended"].val)
                 /\ ~(has("archived") /\ user["archived"].val)
                 /\ ~starts(<<"/", "Deactivated">>)
                 /\ ~starts(<<"/", "Cloud Identities">>)
                 /\ path \notin { <<"/", "Xternal", "/", "No drive">>, <<"/">> }
                 /\ \A i \in 1..Len(mail) : mail[i] # "external"
                 /\ mail \notin { <<"kaiser.soze", "@kaiser-x.com">>,
                                  <<"google_tech", "@kaiser-x.com">> }

\* a record with no flags, whose path only holds /Deactivated further in
C10_Witness ==
    /\ pc = "checked"
    /\ DOMAIN user = {"orgUnitPath", "primaryEmail"}
    /\ user["orgUnitPath"].val = <<"/", "Staff", "/", "Deactivated">>
    /\ result = PyBool(TRUE)

\* d[k1][k2], or the empty str when k1 or k2 is missing
AtOrEmpty(d, k1, k2) ==
    IF k1 \in DOMAIN d /\ k2 \in DOMAIN d[k1] THEN d[k1][k2] ELSE EmptyStr

\* the entries of the list at d[k] that are tagged tag and hold the key field
Tagged(d, k, tag, field) ==
    IF k \notin DOMAIN d THEN {}
    ELSE { i \in 1..Len(d[k]) :
             Get(d[k][i], "type") = PyStr(<<tag>>) /\ field \in DOMAIN d[k][i] }

\* the key of the first organization, or the empty str when the list, its
\* first entry or the key is missing
FirstOrganizationOrEmpty(d, k) ==
    IF "organizations" \in DOMAIN d /\ Len(d["organizations"]) > 0
       /\ k \in DOMAIN d["organizations"][1]
    THEN d["organizations"][1][k] ELSE EmptyStr

\* the key of a group of custom attributes, or the empty str when the
\* schemas, the group or the key is missing
CustomOrEmpty(d, group, k) ==
    IF "customSchemas" \in DOMAIN d THEN AtOrEmpty(d["customSchemas"], group, k)
    ELSE EmptyStr

\* C11: process_user_data returns a profile for every record, whichever of
\* name, phones, addresses, organizations, the custom-attribute groups and
\* their inner keys are missing (an empty organizations list included):
\* every value is a str or a bool, and a missing value comes out as the
\* empty str or as False
C11_TotalOverMissing ==
    /\ pc = "normalize" => ENABLED Normalize
    /\ pc = "normalized" =>
          /\ DOMAIN employee_data \in {TechnicalKeys, StandardKeys}
          /\ \A k \in DOMAIN employee_data : employee_data[k].kind \in {"str", "bool"}
          /\ "primaryEmail" \notin DOMAIN user => employee_data["email"] = EmptyStr
          /\ employee_data["lastName"] = AtOrEmpty(user, "name", "familyName")
          /\ Tagged(user, "phones", "work", "value") = {}
                 => employee_data["phone"] = EmptyStr
          /\ Tagged(user, "addresses", "work", "formatted") = {}
                 => employee_data["address"] = EmptyStr
          /\ DOMAIN employee_data = StandardKeys =>
                /\ employee_data["firstName"] = AtOrEmpty(user, "name", "givenName")
                /\ Tagged(user, "phones", "mobile", "value") = {}
                       => employee_data["mobile"] = EmptyStr
                /\ employee_data["jobtitle"] = FirstOrganizationOrEmpty(user, "title")
                /\ employee_data["department"] = FirstOrganizationOrEmpty(user, "department")
                /\ employee_data["pronouns"] =
                       CustomOrEmpty(user, "Personal_Information", "Pronouns")
                /\ employee_data["managementRole"] =
                       CustomOrEmpty(user, "Contractual_Information", "Management_Role")
                /\ CustomOrEmpty(user, "Personal_Information", "GernePerDu") = EmptyStr
                       => employee_data["gernePerDu"] = PyBool(FALSE)
                /\ ( /\ CustomOrEmpty(user, "Personal_Information", "Pronouns") = EmptyStr
                     /\ CustomOrEmpty(user, "Personal_Information", "GernePerDu") = EmptyStr )
                       => employee_data["conditionalLineBreak"] = PyBool(FALSE)

\* a record that holds nothing but an empty organizations list
C11_Witness ==
    /\ pc = "normalized"
    /\ user = [organizations |-> << >>]
    /\ DOMAIN employee_data = StandardKeys
    /\ \A k \in StandardKeys \ {"technicalUser", "gernePerDu", "conditionalLineBreak"} :
           employee_data[k] = EmptyStr
    /\ employee_data["gernePerDu"] = PyBool(FALSE)
    /\ employee_data["conditionalLineBreak"] = PyBool(FALSE)

\* C12: in a standard profile gernePerDu is true exactly when the custom
\* attribute GernePerDu is there and reads "yes", and conditionalLineBreak
\* (showPronounLine) is false exactly when pronouns is the empty str and
\* gernePerDu is false
C12_DerivedFlags ==
    (pc = "normalized" /\ employee_data["technicalUser"] = PyBool(FALSE)) =>
        LET yes == /\ "customSchemas" \in DOMAIN user
                   /\ "Personal_Information" \in DOMAIN user["customSchemas"]
                   /\ "GernePerDu" \in DOMAIN user["customSchemas"]["Personal_Information"]
                   /\ user["customSchemas"]["Personal_Information"]["GernePerDu"].val
                          = <<"yes">>
        IN  /\ employee_data["gernePerDu"] = PyBool(yes)
            /\ employee_data["conditionalLineBreak"].kind = "bool"
            /\ employee_data["conditionalLineBreak"].val = FALSE
                   <=> ( /\ employee_data["pronouns"] = EmptyStr
                         /\ employee_data["gernePerDu"].val = FALSE )

\* pronouns and no first-name offer ("Yes" is not "yes"): the line stays
C12_Witness ==
    /\ pc = "normalized"
    /\ Get(user, "customSchemas") =
           [Personal_Information |-> [Pronouns |-> S1("she"), GernePerDu |-> S1("Yes")]]
    /\ employee_data["gernePerDu"] = PyBool(FALSE)
    /\ employee_data["conditionalLineBreak"] = PyBool(TRUE)

\* the passes that put a value in: a plain replacement, and a block with a
\* variable when the value is truthy
PutsValueIn(data, r) ==
    \/ r[2] = NORMAL_REPLACEMENT
    \/ r[2] = CUSTOM_PARAGRAPH_WITH_VARIABLE /\ Truthy(Get(data, r[1]))

\* C13: a value that build_signature puts in the place of a marker of the
\* template is in the returned signature as it is in the profile: no pass,
\* neither the one that puts it in nor a later one nor the {company} and
\* {web} substitutions, changes it.  Stated for a template with no block
\* marker, where no pass deletes anything.
C13_ValuesVerbatim ==
    ( /\ pc = "built"
      /\ employee_data \in NormalizedProfiles
      /\ \A i \in 1..Len(template) : template[i] # "/" ) =>
        \A i \in 1..Len(Replacements(employee_data)) :
            LET r == Replacements(employee_data)[i]
                value == Str(GetOr(employee_data, r[1], EmptyStr))
            IN  ( /\ Count(template, VarMarker(r[1])) > 0
                  /\ PutsValueIn(employee_data, r)
                  /\ value # << >> ) =>
                    Count(text, value) > 0

\* the futures whose result came back
Done == { n \in 1..Len(futures) : futures[n].state = "done" }

\* C17: send_messages_to_pubsub calls publish once for every message, in
\* the order of the list, whatever fails before; an error of a future is
\* logged with the employee_id of the message that future was published
\* for; and the count in the summary is the number of futures that came
\* back with a result
C17_PublishReport ==
    /\ pc \in {"publish", "results", "returned"} =>
          attempts = [n \in 1..Len(attempts) |-> n]
    /\ (pc \in {"results", "returned"} /\ messages # << >>) =>
          Len(attempts) = Len(messages)
    /\ \A n \in 1..Len(log) :
          log[n].stage = "future" =>
              log[n].employee_id = EmployeeIdOf(messages[log[n].message])
    /\ (pc = "returned" /\ messages # << >>) =>
          /\ result.published = Cardinality(Done)
          /\ result.of = Len(messages)

\* the positions of the records the relevance filter keeps
Kept == { n \in 1..Len(employees) : check_user_for_relevance(employees[n]) }

\* the position in employees of the n-th record kept
NthKept(n) == CHOOSE k \in Kept : Cardinality({ j \in Kept : j <= k }) = n

\* the message main is to build for a record
MessageFor(record) ==
    LET profile == process_user_data(record)
    IN  [employee_id |-> Get(record, "primaryEmail"),
         signature |->
             PyStr(build_signature(IF profile["technicalUser"] = PyBool(TRUE)
                                   THEN html_template_technical_user
                                   ELSE html_template_user,
                                   profile))]

\* the run has handed its messages to send_messages_to_pubsub
Handed == pc \in {"send", "publish", "results", "returned", "raised"}

\* C14: the list main hands to publishing holds one message for every
\* record the relevance filter keeps, in the order of the records, and
\* none for a record it drops; a message holds the record's primaryEmail
\* and the signature built from the normalized profile and the template of
\* the profile's kind; no step of the run changes either template, and
\* publishing leaves the list as it was handed over
C14_OneMessagePerKept ==
    /\ [](pc = "send" =>
             /\ Len(messages) = Cardinality(Kept)
             /\ \A n \in 1..Len(messages) :
                    messages[n] = MessageFor(employees[NthKept(n)]))
    /\ [][ /\ html_template_user' = html_template_user
           /\ html_template_technical_user' = html_template_technical_user
           /\ Handed => messages' = messages ]_vars

\* a suspended user is dropped and a technical account after it is kept
C14_Witness ==
    /\ pc = "send"
    /\ Len(employees) = 2
    /\ Get(employees[1], "suspended") = PyBool(TRUE)
    /\ Get(employees[2], "orgUnitPath") = TechnicalPath
    /\ html_template_technical_user = VarMarker("lastName") \o <<" ">> \o VarMarker("email")
    /\ messages = <<[employee_id |-> PyStr(<<"bot", "@kaiser-x.com">>),
                     signature |-> PyStr(<<"Bot", " ", "bot", "@kaiser-x.com">>)]>>

UpdateSteps == <<"get_credentials", "update_gmail_signature", "write_signature_to_drive">>

\* C15: update_signature gets the credentials, updates the Gmail signature
\* and writes to Drive, in this order; the Drive write is attempted only
\* after the Gmail update succeeded; an error of the credentials or of the
\* Gmail update is raised and no Drive write is attempted; an error of the
\* Drive write, duplicate files included, is passed over and True returned
C15_StepsInOrder ==
    pc = "receiver" =>
        \A r \in Requests :
            LET c == calls[r]
            IN  /\ Len(c) <= 3
                /\ \A n \in 1..Len(c) : c[n].call = UpdateSteps[n]
                /\ \A n \in 1..(Len(c) - 1) : c[n].outcome = "ok"
                /\ rpc[r] = "raised" <=>
                       (c # << >> /\ Len(c) <= 2 /\ c[Len(c)].outcome = "error")
                /\ rpc[r] = "returned" <=>
                       (Len(c) = 3 /\ c[3].outcome \in {"ok", "error"})

\* the lookup finds two files, the Drive write fails and True is returned
C15_Witness ==
    /\ pc = "receiver"
    /\ \E r \in Requests :
          /\ rpc[r] = "returned"
          /\ drive_error[r] = "duplicate"
          /\ calls[r][2] = [call |-> "update_gmail_signature", outcome |-> "ok"]
          /\ calls[r][3] = [call |-> "write_signature_to_drive", outcome |-> "error"]

\* C16: a folder that starts with at most one file of the name holds at
\* most one after any number of requests, however their steps interleave,
\* and no lookup ends in the duplicate-files error
C16_AtMostOneFile ==
    pc = "receiver" =>
        /\ Cardinality(drive) <= 1
        /\ \A r \in Requests : drive_error[r] # "duplicate"

====
